---- MODULE Spec2Model ----
(***************************************************************************)
(* A model of the PM2 server monitor: the Pm2Worker (probe, command        *)
(* executor, fleet client), the PM2GUI daemon state machine with its       *)
(* reconciliation/diff step, the preloader of entry.py, and the external   *)
(* PM2 daemon.  Pm2Worker methods run on three contexts: the preloader     *)
(* thread ("pre"), the worker QThread ("wk", reached through queued signal *)
(* connections) and the control thread ("ctl", when PM2GUI calls a worker  *)
(* method directly).  A signal emitted on "wk" is queued to the control    *)
(* thread; one emitted on "ctl" runs the connected PM2GUI handler at once. *)
(***************************************************************************)
EXTENDS Integers, Sequences, FiniteSets, TLC

\* Number of external events (user clicks, timer ticks, daemon changes).
MaxEvents == 2

\* Process names, listed in Python string order.
NameOrder == <<"a", "b", "c">>

Names == {NameOrder[i] : i \in 1..Len(NameOrder)}

Rank(n) == CHOOSE i \in 1..Len(NameOrder) : NameOrder[i] = n

Threads == {"pre", "ctl", "wk"}

VARIABLES
    pm2_installed,  \* the pm2 command line can be launched on this machine
    daemon_alive,   \* the external PM2 God Daemon process exists
    pm2,            \* the daemon's process table: name -> absent/online/stopped
    events,         \* external events so far
    th,             \* per context: position in the Pm2Worker method it runs
    wk_q,           \* calls queued to the worker thread (queued connections)
    gui_q,          \* signals queued from the worker thread to the control thread
    gui,            \* the PM2GUI object and its widgets
    projects,       \* ProjectManager.projects
    init_result,    \* what Preloader.run() hands to on_preload_finished
    closed          \* the main window was closed

vars == <<pm2_installed, daemon_alive, pm2, events, th, wk_q, gui_q, gui, projects, init_result, closed>>

-----------------------------------------------------------------------------
(* Data *)

NoProject == [name |-> "", conf |-> 0, pm_id |-> FALSE, status |-> "undeployed"]

Declared(n, c) == [name |-> n, conf |-> c]

\* Values of the declared settings other than the name.
Confs == {0, 1}

LiveRecord(n, s) == [name |-> n, status |-> s]

\* `pm2 jlist`: one record per process the daemon manages.
RECURSIVE SnapshotFrom(_, _)
SnapshotFrom(table, i) ==
    IF i > Len(NameOrder) THEN <<>>
    ELSE LET n == NameOrder[i]
         IN (IF table[n] = "absent" THEN <<>> ELSE <<LiveRecord(n, table[n])>>)
            \o SnapshotFrom(table, i + 1)

Snapshot(table) == SnapshotFrom(table, 1)

EmptyTable == [n \in Names |-> "absent"]

DaemonStatusMsg(b) == [type |-> "daemon_status_ready", running |-> b, data |-> <<>>, name |-> ""]

ListReadyMsg(d) == [type |-> "list_ready", running |-> FALSE, data |-> d, name |-> ""]

LogsReadyMsg(n) == [type |-> "logs_ready", running |-> FALSE, data |-> <<>>, name |-> n]

ActionFinishedMsg(title) == [type |-> "action_finished", running |-> FALSE, data |-> <<>>, name |-> title]

ErrorMsg == [type |-> "error", running |-> FALSE, data |-> <<>>, name |-> ""]

-----------------------------------------------------------------------------
(* PM2GUI: pure parts of the handlers, as functions of the window object g *)

MergeOneDeclaredOnly(proj, data) ==
    [name |-> proj.name, conf |-> proj.conf, pm_id |-> FALSE, status |-> "undeployed"]

\* {**proj_config, **(live_data or {})} for the first live record of that name.
MergeOne(proj, data) ==
    LET hits == {j \in 1..Len(data) : data[j].name = proj.name}
    IN IF hits = {}
       THEN [name |-> proj.name, conf |-> proj.conf, pm_id |-> FALSE, status |-> "undeployed"]
       ELSE LET live == data[CHOOSE j \in hits : \A k \in hits : j <= k]
            IN [name |-> live.name, conf |-> proj.conf, pm_id |-> TRUE, status |-> live.status]

Merge(P, data) == [i \in 1..Len(P) |-> MergeOne(P[i], data)]

\* list.sort(key=name): stable insertion by rank.
RECURSIVE InsertSorted(_, _)
InsertSorted(s, x) ==
    IF s = <<>> THEN <<x>>
    ELSE IF Rank(s[Len(s)].name) <= Rank(x.name) THEN Append(s, x)
    ELSE Append(InsertSorted(SubSeq(s, 1, Len(s) - 1), x), s[Len(s)])

SortByNameSkipped(s) == s

RECURSIVE SortByName(_)
SortByName(s) ==
    IF s = <<>> THEN <<>>
    ELSE InsertSorted(SortByName(SubSeq(s, 1, Len(s) - 1)), s[Len(s)])

FindByName(s, n) ==
    LET hits == {j \in 1..Len(s) : s[j].name = n}
    IN IF hits = {} THEN NoProject ELSE s[CHOOSE j \in hits : \A k \in hits : j <= k]

NamesOf(s) == {s[j].name : j \in 1..Len(s)}

\* ProjectManager.find_project(project_name)
FindDeclared(P, n) ==
    LET hits == {j \in 1..Len(P) : P[j].name = n}
    IN IF hits = {} THEN Declared("", 0) ELSE P[CHOOSE j \in hits : \A k \in hits : j <= k]

DashboardItem == [kind |-> "dashboard", name |-> ""]

ProjectItem(n) == [kind |-> "project", name |-> n]

CurrentItem(g) ==
    IF g.current_row = 0 THEN [kind |-> "none", name |-> ""] ELSE g.list_items[g.current_row]

\* DashboardWidget.update_stats: the two bulk buttons follow the counts.
update_stats(g, all) ==
    LET online == {j \in 1..Len(all) : all[j].status = "online"}
        acted == {j \in 1..Len(all) : all[j].status \in {"online", "stopped", "stopping", "errored"}}
    IN [g EXCEPT !.dash_restart_all_button = (acted # {}),
                 !.dash_stop_all_button = (online # {})]

set_daemon_statusKillAlways(g, is_running) ==
    LET g1 == [g EXCEPT !.dash_start_daemon_button = ~is_running,
                        !.dash_kill_daemon_button = TRUE]
    IN IF is_running THEN g1 ELSE update_stats(g1, <<>>)

\* DashboardWidget.set_daemon_status
set_daemon_status(g, is_running) ==
    LET g1 == [g EXCEPT !.dash_start_daemon_button = ~is_running,
                        !.dash_kill_daemon_button = is_running]
    IN IF is_running THEN g1 ELSE update_stats(g1, <<>>)

\* Sequencing: the value of x, computed once, handed to F.
Then(x, F(_)) == CHOOSE r \in {F(v) : v \in {x}} : TRUE

\* PM2GUI.update_detail_view_if_selected
update_detail_view_if_selected(g) ==
    LET cur == CurrentItem(g)
        proj == FindByName(g.all_projects_data, cur.name)
    IN IF cur.kind # "project" \/ proj = NoProject THEN g
       ELSE [g EXCEPT !.detail_current_project = proj]

\* What one update_ui call did to the list widget: clear(), and the names of
\* the project items it took out and put in.
NoListOps == [cleared |-> FALSE, removed |-> {}, added |-> {}]

\* QListWidget.takeItem(row): a removed current item hands the current index
\* to the next item, or to the previous one when it was the last.
TakeItem(g, row) ==
    LET n == Len(g.list_items)
        items == [j \in 1..(n - 1) |-> IF j < row THEN g.list_items[j] ELSE g.list_items[j + 1]]
        cur == IF g.current_row = 0 THEN 0
               ELSE IF g.current_row < row THEN g.current_row
               ELSE IF g.current_row > row THEN g.current_row - 1
               ELSE IF row < n THEN row ELSE row - 1
    IN [g EXCEPT !.list_items = items, !.current_row = cur,
                 !.list_ops.removed = @ \cup {g.list_items[row].name}]

InsertItemAtEnd(g, row, item) ==
    [g EXCEPT !.list_items = Append(@, item),
              !.list_ops.added = @ \cup {item.name}]

\* QListWidget.insertItem(row, item), row counted from 1 and clamped to the end.
InsertItem(g, row, item) ==
    LET n == Len(g.list_items)
        r == IF row > n + 1 THEN n + 1 ELSE row
        items == [j \in 1..(n + 1) |->
                    IF j < r THEN g.list_items[j]
                    ELSE IF j = r THEN item ELSE g.list_items[j - 1]]
        cur == IF g.current_row # 0 /\ g.current_row >= r THEN g.current_row + 1
               ELSE g.current_row
    IN [g EXCEPT !.list_items = items, !.current_row = cur,
                 !.list_ops.added = @ \cup {item.name}]

\* REMOVE items that are no longer in the data (main.py 331-334).
RECURSIVE RemoveGone(_, _, _)
RemoveGone(g, keep, row) ==
    IF row > Len(g.list_items) THEN g
    ELSE IF g.list_items[row].kind = "project" /\ g.list_items[row].name \notin keep
         THEN RemoveGone(TakeItem(g, row), keep, row)
         ELSE RemoveGone(g, keep, row + 1)

\* UPDATE existing items and ADD new ones (main.py 337-348).
RECURSIVE AddNew(_, _, _, _)
AddNew(g, existing, new, i) ==
    IF i > Len(new) THEN g
    ELSE IF new[i].name \in existing
         THEN AddNew(g, existing, new, i + 1)
         ELSE AddNew(InsertItem(g, i + 1, ProjectItem(new[i].name)), existing, new, i + 1)

\* First load: clear, add the dashboard entry and every project, select row 0,
\* then on_item_selected(dashboard item) shows the dashboard page.
FirstLoad(g, new) ==
    [g EXCEPT !.list_items = <<DashboardItem>> \o [j \in 1..Len(new) |-> ProjectItem(new[j].name)],
              !.current_row = 1,
              !.stack = "dashboard",
              !.list_ops = [cleared |-> TRUE, removed |-> {}, added |-> NamesOf(new)]]

DiffLoadRebuilds(g, new) == [FirstLoad(g, new) EXCEPT !.current_row = g.current_row, !.stack = g.stack]

DiffLoad(g, new) ==
    LET items == g.list_items
        existing == {items[j].name : j \in {k \in 1..Len(items) : items[k].kind = "project"}}
    IN Then(existing, LAMBDA ex :
            Then(RemoveGone(g, NamesOf(new), 1), LAMBDA g1 : AddNew(g1, ex, new, 1)))

\* PM2GUI.update_ui(pm2_json_data); P is project_manager.get_projects().
update_ui(g, P, data) ==
    LET is_first_load == (g.all_projects_data = <<>>)
        Render(new) ==
            Then(update_stats([g EXCEPT !.all_projects_data = new, !.list_ops = NoListOps], new), LAMBDA g1 :
            Then(update_detail_view_if_selected(g1), LAMBDA g2 :
            Then(IF is_first_load THEN FirstLoad(g2, new) ELSE DiffLoad(g2, new), LAMBDA g3 :
                 [g3 EXCEPT !.status_bar =
                      IF g.daemon_state = "STOPPED" THEN "not_running" ELSE "updated"])))
    IN Then(SortByName(Merge(P, data)), Render)

StateOfInverted(new_state_or_bool) ==
    IF new_state_or_bool = "True" THEN "STOPPED"
    ELSE IF new_state_or_bool = "False" THEN "RUNNING"
    ELSE new_state_or_bool

\* The DaemonState a bool from the worker or the preloader stands for.
StateOf(new_state_or_bool) ==
    IF new_state_or_bool = "True" THEN "RUNNING"
    ELSE IF new_state_or_bool = "False" THEN "STOPPED"
    ELSE new_state_or_bool

BoolArg(b) == IF b THEN "True" ELSE "False"

SetProjectActions(g, on) == [g EXCEPT !.project_actions = on]

EnterPending(g) ==
    LET g1 == [g EXCEPT !.daemon_state = "PENDING",
                        !.status_bar = "checking",
                        !.start_daemon_action = FALSE,
                        !.kill_daemon_action = FALSE]
        g2 == set_daemon_status(SetProjectActions(g1, FALSE), FALSE)
    IN [g2 EXCEPT !.loading_overlay = TRUE]

StartTimerIfIdle(g) == [g EXCEPT !.refresh_timer = TRUE]

EnterRunning(g) ==
    LET g1 == [g EXCEPT !.daemon_state = "RUNNING",
                        !.status_bar = "daemon_running",
                        !.start_daemon_action = FALSE,
                        !.kill_daemon_action = TRUE]
        g2 == set_daemon_status(SetProjectActions(g1, TRUE), TRUE)
    IN StartTimerIfIdle([g2 EXCEPT !.loading_overlay = FALSE])

StopTimerForgotten(g) == g

StopTimerIfActive(g) == [g EXCEPT !.refresh_timer = FALSE]

EnterStopped(g, P) ==
    LET g1 == [g EXCEPT !.daemon_state = "STOPPED",
                        !.status_bar = "daemon_stopped",
                        !.start_daemon_action = TRUE,
                        !.kill_daemon_action = FALSE]
        g2 == set_daemon_status(SetProjectActions(g1, FALSE), FALSE)
    IN Then(StopTimerIfActive([g2 EXCEPT !.loading_overlay = FALSE]),
            LAMBDA g3 : update_ui(g3, P, <<>>))

SameStateUnguarded(g, new_state) == FALSE

\* The idempotent transition guard (main.py 232).
SameState(g, new_state) == new_state = g.daemon_state

\* PM2GUI.update_daemon_status(new_state_or_bool)
update_daemon_status(g, P, new_state_or_bool) ==
    LET new_state == StateOf(new_state_or_bool)
        g1 == [g EXCEPT !.printed = <<g.daemon_state, new_state>>]
    IN IF SameState(g, new_state) THEN g
       ELSE IF new_state = "PENDING" THEN EnterPending(g1)
       ELSE IF new_state = "RUNNING" THEN EnterRunning(g1)
       ELSE EnterStopped(g1, P)

\* PM2GUI.on_logs_received(proc_name, logs)
on_logs_received(g, proc_name) ==
    IF g.stack # "detail" THEN g
    ELSE IF g.detail_current_project # NoProject /\ g.detail_current_project.name = proc_name
         THEN [g EXCEPT !.log_viewer = proc_name]
         ELSE g

\* PM2GUI.show_action_result(title, message)
show_action_result(g, title) == [g EXCEPT !.status_bar = "action"]

\* PM2GUI.show_error_message(message): a modal QMessageBox.critical.
show_error_message(g) == [g EXCEPT !.status_bar = "error", !.dialogs = @ + 1]

\* The PM2GUI slot connected to each worker signal (main.py 108-113).
Handle(g, P, msg) ==
    IF msg.type = "daemon_status_ready" THEN update_daemon_status(g, P, BoolArg(msg.running))
    ELSE IF msg.type = "list_ready" THEN update_ui(g, P, msg.data)
    ELSE IF msg.type = "logs_ready" THEN on_logs_received(g, msg.name)
    ELSE IF msg.type = "action_finished" THEN show_action_result(g, msg.name)
    ELSE show_error_message(g)

-----------------------------------------------------------------------------
(* The external daemon and the pm2 command line *)

\* How one launch of a pm2 command line can end: FileNotFoundError when the
\* tool cannot be launched, else exit 0, a non-zero exit or the 15 s timeout.
Outcomes(installed) == IF installed THEN {"ok", "fail", "timeout"} ELSE {"notfound"}

\* What _run_command returns: check_output's text, e.output, or None.
ReturnValues(verb, outcome) ==
    IF outcome = "ok" THEN (IF verb = "jlist" THEN {"json", "text", "empty"} ELSE {"text", "empty"})
    ELSE IF outcome = "fail" THEN {"text", "empty"}
    ELSE IF outcome = "timeout" THEN {"none", "text"}
    ELSE {"none"}

EmitsErrorUnlessTolerated(outcome, can_fail) ==
    outcome \in {"notfound", "fail", "timeout"} /\ ~can_fail

EmitsErrorAlways(outcome, can_fail) == outcome # "ok"

\* Whether _run_command emits the error signal (pm2_worker.py 101-110).
EmitsError(outcome, can_fail) ==
    outcome = "notfound" \/ (outcome \in {"fail", "timeout"} /\ ~can_fail)

\* A pm2 client that runs connects to the God Daemon and spawns it when it is
\* absent; a failed or timed-out client may or may not have got that far.
Connects(outcome, reached) == outcome = "ok" \/ (outcome \in {"fail", "timeout"} /\ reached)

TableAfter(table, verb, arg) ==
    IF verb = "start" THEN [table EXCEPT ![arg] = "online"]
    ELSE IF verb = "stop" THEN [table EXCEPT ![arg] = IF @ = "absent" THEN @ ELSE "stopped"]
    ELSE IF verb \in {"restart", "reload"} THEN [table EXCEPT ![arg] = IF @ = "absent" THEN @ ELSE "online"]
    ELSE IF verb = "delete" THEN [table EXCEPT ![arg] = "absent"]
    ELSE IF verb = "stop_all" THEN [n \in Names |-> IF table[n] = "absent" THEN "absent" ELSE "stopped"]
    ELSE IF verb = "restart_all" THEN [n \in Names |-> IF table[n] = "absent" THEN "absent" ELSE "online"]
    ELSE table

\* The daemon after one pm2 command line has run.
DaemonAfter(alive, table, verb, arg, outcome, reached) ==
    IF verb = "kill"
    THEN (IF outcome = "ok" THEN [alive |-> FALSE, table |-> EmptyTable]
          ELSE [alive |-> alive, table |-> table])
    ELSE LET up == alive \/ Connects(outcome, reached)
             t1 == IF alive THEN table ELSE EmptyTable
         IN [alive |-> up,
             table |-> IF outcome = "ok" THEN TableAfter(t1, verb, arg) ELSE t1]

\* Outcomes of the OS process-table query of _is_daemon_running: the daemon
\* shows only when it exists; the others are grep's exit 1, a listing tool
\* that is missing, the 10 s timeout, and wmic output without a PID line.
ProbeFailures == {"no_match", "tool_missing", "timeout", "no_pid_line"}

ProbeOutcomes(alive) == (IF alive THEN {"found"} ELSE {}) \cup ProbeFailures

is_daemon_runningUnlessTimeout(probe_outcome) == probe_outcome \in {"found", "timeout"}

\* Pm2Worker._is_daemon_running: True only on the branch where the query
\* exited 0 with the daemon's line; every except branch sets False.
is_daemon_running(probe_outcome) == probe_outcome = "found"

-----------------------------------------------------------------------------
(* Pm2Worker methods, step by step, on context t *)

\* out is the value the last _run_command returned and res the way the
\* method's own command ended, both until the method has acted on them; sig
\* lists the error, logs_ready, daemon_status_ready and list_ready signals
\* the call has emitted so far, in order.
\* temp_eco_file: the ecosystem file start_process wrote is on disk.  then
\* and new: what the PM2GUI handler that called the method directly does once
\* it returns (remove_project, reconfigure_project_dialog) and the settings
\* it will store.  by: the connection that queued the call on the worker
\* thread ("timer" for refresh_timer.timeout, "user" for a widget's signal).
Idle == [pc |-> "idle", op |-> "", arg |-> "", is_running |-> FALSE,
         out |-> "none", data |-> <<>>, log |-> <<>>, res |-> "", sig |-> <<>>,
         temp_eco_file |-> FALSE, then |-> "", new |-> Declared("", 0), by |-> ""]

VerbOf(op) ==
    IF op = "start_daemon" THEN "resurrect"
    ELSE IF op = "kill_daemon" THEN "kill"
    ELSE IF op = "start_process" THEN "start"
    ELSE IF op = "stop_process" THEN "stop"
    ELSE IF op = "restart_process" THEN "restart"
    ELSE IF op = "delete_process" THEN "delete"
    ELSE IF op = "reload_process" THEN "reload"
    ELSE IF op = "get_logs" THEN "logs"
    ELSE op

CanFailAlways(op) == TRUE

\* can_fail of the method's own command: only start_daemon passes True.
CanFail(op) == op = "start_daemon"

\* Whether the method emits action_finished for the output it got.
EmitsFinished(op, out) ==
    IF op = "start_daemon" THEN TRUE
    ELSE IF op = "kill_daemon" THEN out # "none"
    ELSE out \in {"text", "json"}

FinishedTitle(op) == op

\* The method's first position when it is entered.
EntryPc(op) == IF op = "get_process_list" THEN "probe" ELSE "cmd"

RefreshesUnlessDelete(op) == op \notin {"get_logs", "delete_process"}

\* Whether the method goes on to get_process_list() after its command.
RefreshesAfter(op) == op # "get_logs"

\* start_process writes its one-shot ecosystem file before the command.
WritesDescriptor(op) == op = "start_process"

KeepsDescriptorOnFailure(exists, res) == exists /\ res # "ok"

\* start_process's finally: the file is removed however the command ended.
DescriptorAfter(exists, res) == FALSE

Enter(op, arg) == [Idle EXCEPT !.pc = EntryPc(op), !.op = op, !.arg = arg,
                               !.temp_eco_file = WritesDescriptor(op)]

\* A signal emitted on t: queued to the control thread from the worker
\* thread, delivered at once on the control thread, unconnected on the
\* preloader's temporary worker.
Emit(t, msg) ==
    IF t = "wk" THEN gui_q' = Append(gui_q, msg) /\ gui' = gui
    ELSE IF t = "ctl" THEN gui' = Handle(gui, projects, msg) /\ gui_q' = gui_q
    ELSE UNCHANGED <<gui, gui_q>>

\* The context may take its next step: the control thread is not inside a
\* modal error box.
Runs(t) == ~closed /\ (t = "ctl" => gui.dialogs = 0)

\* _run_command(command, can_fail) for the method's own command.
RunCommand(t) ==
    /\ Runs(t)
    /\ th[t].pc = "cmd"
    /\ \E outcome \in Outcomes(pm2_installed), reached \in BOOLEAN :
         \E out \in ReturnValues(VerbOf(th[t].op), outcome) :
            LET d == DaemonAfter(daemon_alive, pm2, VerbOf(th[t].op), th[t].arg, outcome, reached)
            IN /\ daemon_alive' = d.alive
               /\ pm2' = d.table
               /\ th' = [th EXCEPT ![t].pc = "post", ![t].out = out,
                                   ![t].res = outcome,
                                   ![t].log = Append(@, "cmd"),
                                   ![t].sig = IF EmitsError(outcome, CanFail(th[t].op))
                                              THEN Append(@, "error") ELSE @]
               /\ IF EmitsError(outcome, CanFail(th[t].op))
                  THEN Emit(t, ErrorMsg)
                  ELSE UNCHANGED <<gui, gui_q>>
    /\ UNCHANGED <<pm2_installed, events, wk_q, projects, init_result, closed>>

\* After the command: action_finished (or logs_ready for get_logs).
AfterCommand(t) ==
    /\ Runs(t)
    /\ th[t].pc = "post"
    /\ th' = [th EXCEPT ![t].pc = IF RefreshesAfter(th[t].op) THEN "probe" ELSE "ret",
                        ![t].out = "none",
                        ![t].res = IF RefreshesAfter(th[t].op) THEN "" ELSE @,
                        ![t].temp_eco_file = DescriptorAfter(@, th[t].res),
                        ![t].sig = IF th[t].op = "get_logs" /\ th[t].out \in {"text", "json"}
                                   THEN Append(@, "logs_ready") ELSE @]
    /\ IF th[t].op = "get_logs"
       THEN (IF th[t].out \in {"text", "json"}
             THEN Emit(t, LogsReadyMsg(th[t].arg))
             ELSE UNCHANGED <<gui, gui_q>>)
       ELSE (IF EmitsFinished(th[t].op, th[t].out)
             THEN Emit(t, ActionFinishedMsg(FinishedTitle(th[t].op)))
             ELSE UNCHANGED <<gui, gui_q>>)
    /\ UNCHANGED <<pm2_installed, daemon_alive, pm2, events, wk_q, projects, init_result, closed>>

AfterProbeAlwaysQueries(is_running) == "query"

\* Where get_process_list goes after the probe: `if is_running:` queries,
\* else it emits the empty list at once.
AfterProbe(is_running) == IF is_running THEN "query" ELSE "list"

\* get_process_list, first half: the probe and daemon_status_ready.
Probe(t) ==
    /\ Runs(t)
    /\ th[t].pc = "probe"
    /\ \E po \in ProbeOutcomes(daemon_alive) :
         LET r == is_daemon_running(po)
         IN /\ th' = [th EXCEPT ![t].pc = AfterProbe(r),
                                ![t].is_running = r,
                                ![t].log = Append(Append(@, "probe:" \o BoolArg(r)), "status:" \o BoolArg(r)),
                                ![t].sig = Append(@, "daemon_status_ready")]
            /\ Emit(t, DaemonStatusMsg(r))
    /\ UNCHANGED <<pm2_installed, daemon_alive, pm2, events, wk_q, projects, init_result, closed>>

ParsedAnything(out, snapshot) == snapshot

ParsedUnlessNone(out, snapshot) == IF out = "none" THEN <<>> ELSE snapshot

\* What json.loads accepts of the jlist output: the snapshot, else "[]".
Parsed(out, snapshot) == IF out = "json" THEN snapshot ELSE <<>>

\* get_process_list, second half: `pm2 jlist` with can_fail=True.
Query(t) ==
    /\ Runs(t)
    /\ th[t].pc = "query"
    /\ \E outcome \in Outcomes(pm2_installed), reached \in BOOLEAN :
         \E out \in ReturnValues("jlist", outcome) :
            LET d == DaemonAfter(daemon_alive, pm2, "jlist", "", outcome, reached)
            IN /\ daemon_alive' = d.alive
               /\ pm2' = d.table
               /\ th' = [th EXCEPT ![t].pc = "list",
                                   ![t].out = out,
                                   ![t].data = Parsed(out, Snapshot(d.table)),
                                   ![t].log = Append(@, "jlist"),
                                   ![t].sig = IF EmitsError(outcome, TRUE)
                                              THEN Append(@, "error") ELSE @]
               /\ IF EmitsError(outcome, TRUE)
                  THEN Emit(t, ErrorMsg)
                  ELSE UNCHANGED <<gui, gui_q>>
    /\ UNCHANGED <<pm2_installed, events, wk_q, projects, init_result, closed>>

\* The list a get_process_list call emits.
ListToEmit(w) == IF w.is_running THEN w.data ELSE <<>>

EmitList(t) ==
    /\ Runs(t)
    /\ th[t].pc = "list"
    /\ th' = [th EXCEPT ![t].pc = "ret",
                        ![t].out = "none",
                        ![t].log = Append(@, IF ListToEmit(th[t]) = <<>> THEN "list:[]" ELSE "list:data"),
                        ![t].sig = Append(@, "list_ready")]
    /\ Emit(t, ListReadyMsg(ListToEmit(th[t])))
    /\ UNCHANGED <<pm2_installed, daemon_alive, pm2, events, wk_q, projects, init_result, closed>>

\* ProjectManager.remove_project(project_name)
RemoveProject(P, name) ==
    LET keep == {i \in 1..Len(P) : P[i].name # name}
        Nth(k) == CHOOSE i \in keep : Cardinality({j \in keep : j <= i}) = k
    IN [k \in 1..Cardinality(keep) |-> P[Nth(k)]]

add_projectReportsOnly(P, new_data) ==
    [ok |-> new_data.name \notin NamesOf(P), projects |-> Append(P, new_data)]

\* ProjectManager.add_project(**kwargs): refused when the name is taken.
add_project(P, new_data) ==
    IF new_data.name \in NamesOf(P) THEN [ok |-> FALSE, projects |-> P]
    ELSE [ok |-> TRUE, projects |-> Append(P, new_data)]

update_projectUnchecked(P, old_name, new_data) ==
    IF new_data.name = "" \/ old_name \notin NamesOf(P) THEN [ok |-> FALSE, projects |-> P]
    ELSE LET first == CHOOSE i \in 1..Len(P) :
                          P[i].name = old_name /\ \A j \in 1..Len(P) : P[j].name = old_name => i <= j
         IN [ok |-> TRUE, projects |-> [P EXCEPT ![first] = new_data]]

\* ProjectManager.update_project(old_name, **new_data): refused when the new
\* name is missing or belongs to another project, or the old one is not found.
update_project(P, old_name, new_data) ==
    IF new_data.name = "" THEN [ok |-> FALSE, projects |-> P]
    ELSE IF old_name # new_data.name /\ new_data.name \in NamesOf(P) THEN [ok |-> FALSE, projects |-> P]
    ELSE IF old_name \notin NamesOf(P) THEN [ok |-> FALSE, projects |-> P]
    ELSE LET first == CHOOSE i \in 1..Len(P) :
                          P[i].name = old_name /\ \A j \in 1..Len(P) : P[j].name = old_name => i <= j
         IN [ok |-> TRUE, projects |-> [P EXCEPT ![first] = new_data]]

\* A modal warning or information box: the handler waits for the user.
MessageBox(g) == [g EXCEPT !.dialogs = @ + 1]

\* remove_project after the confirmation (and the delete, when the project
\* was in PM2): the store drops the project and the list is refreshed.
RemoveTail(g, P, name) ==
    [gui |-> [g EXCEPT !.status_bar = "removed"],
     projects |-> RemoveProject(P, name),
     th |-> Enter("get_process_list", "")]

\* reconfigure_project_dialog from update_project on: a refused update warns
\* and refreshes, an accepted one leaves the refresh to the timer.
UpdateTail(g, P, old_name, new_data) ==
    LET u == update_project(P, old_name, new_data)
    IN IF u.ok
       THEN [gui |-> [g EXCEPT !.status_bar = "reconfigured"], projects |-> u.projects, th |-> Idle]
       ELSE [gui |-> MessageBox(g), projects |-> P,
             th |-> Enter("get_process_list", "")]

\* Where the control thread goes when the method it called directly returns.
Resume(w, g, P) ==
    IF w.then = "remove_project" THEN RemoveTail(g, P, w.arg)
    ELSE IF w.then = "update_project" THEN UpdateTail(g, P, w.arg, w.new)
    ELSE [gui |-> g, projects |-> P, th |-> Idle]

\* The method returns: to the worker's event loop, or to the PM2GUI handler
\* that called it, which goes on or returns to the control thread's event loop.
Return(t) ==
    /\ Runs(t)
    /\ th[t].pc = "ret"
    /\ LET k == Resume(th[t], gui, projects)
       IN /\ th' = [th EXCEPT ![t] = k.th]
          /\ gui' = k.gui
          /\ projects' = k.projects
    /\ UNCHANGED <<pm2_installed, daemon_alive, pm2, events, wk_q, gui_q, init_result, closed>>

\* The worker thread's event loop takes the next queued call.
WorkerTakes ==
    /\ ~closed
    /\ th["wk"].pc = "idle"
    /\ wk_q # <<>>
    /\ th' = [th EXCEPT !["wk"] = [Enter(Head(wk_q).op, Head(wk_q).arg) EXCEPT !.by = Head(wk_q).by]]
    /\ wk_q' = Tail(wk_q)
    /\ UNCHANGED <<pm2_installed, daemon_alive, pm2, events, gui_q, gui, projects, init_result, closed>>

-----------------------------------------------------------------------------
(* entry.py: the preloader and the construction of the main window *)

InitialAlwaysQueries(is_running) == "query"

\* Where get_initial_state goes after the probe: `if not is_running:` returns.
InitialAfterProbe(is_running) == IF is_running THEN "query" ELSE "done"

\* Preloader.run -> temp_worker.get_initial_state(), the probe.
GetInitialStateProbe ==
    /\ th["pre"].pc = "probe"
    /\ \E po \in ProbeOutcomes(daemon_alive) :
         LET r == is_daemon_running(po)
         IN /\ th' = [th EXCEPT !["pre"].pc = InitialAfterProbe(r),
                                !["pre"].is_running = r,
                                !["pre"].log = Append(@, "probe:" \o BoolArg(r))]
            /\ init_result' = IF InitialAfterProbe(r) = "done"
                              THEN [ready |-> TRUE, data |-> <<>>, running |-> FALSE]
                              ELSE init_result
    /\ UNCHANGED <<pm2_installed, daemon_alive, pm2, events, wk_q, gui_q, gui, projects, closed>>

\* get_initial_state, the jlist query with can_fail=True and its parse.
GetInitialStateQuery ==
    /\ th["pre"].pc = "query"
    /\ \E outcome \in Outcomes(pm2_installed), reached \in BOOLEAN :
         \E out \in ReturnValues("jlist", outcome) :
            LET d == DaemonAfter(daemon_alive, pm2, "jlist", "", outcome, reached)
            IN /\ daemon_alive' = d.alive
               /\ pm2' = d.table
               /\ th' = [th EXCEPT !["pre"].pc = "done",
                                   !["pre"].out = out,
                                   !["pre"].res = outcome,
                                   !["pre"].log = Append(@, "jlist"),
                                   !["pre"].sig = IF EmitsError(outcome, TRUE)
                                                  THEN Append(@, "error") ELSE @]
               /\ init_result' = [ready |-> TRUE, data |-> Parsed(out, Snapshot(d.table)),
                                  running |-> TRUE]
    /\ UNCHANGED <<pm2_installed, events, wk_q, gui_q, gui, projects, closed>>

\* on_preload_finished -> PM2GUI.__init__ -> init_ui: the state becomes PENDING.
\* Preloader.run has returned and its temporary worker is gone.
Construct ==
    /\ init_result.ready
    /\ th["ctl"].pc = "boot"
    /\ gui' = update_daemon_status(gui, projects, "PENDING")
    /\ th' = [th EXCEPT !["ctl"].pc = "post_init", !["pre"] = [Idle EXCEPT !.pc = "gone"]]
    /\ UNCHANGED <<pm2_installed, daemon_alive, pm2, events, wk_q, gui_q, projects, init_result, closed>>

\* PM2GUI.post_init_setup(initial_json_data, initial_daemon_status)
post_init_setup ==
    /\ th["ctl"].pc = "post_init"
    /\ gui' = Then(update_daemon_status(gui, projects, BoolArg(init_result.running)),
                   LAMBDA g : update_ui(g, projects, init_result.data))
    /\ th' = [th EXCEPT !["ctl"] = Idle]
    /\ UNCHANGED <<pm2_installed, daemon_alive, pm2, events, wk_q, gui_q, projects, init_result, closed>>

-----------------------------------------------------------------------------
(* The control thread: event loop, user requests, queued signals *)

\* The control thread is dispatching events: at rest, or inside the nested
\* loop of a modal box (a confirmation question or an error box).
InEventLoop ==
    /\ ~closed
    /\ gui.daemon_state # "None"
    /\ \/ th["ctl"].pc \in {"idle", "confirm_kill", "confirm_delete", "confirm_remove",
                           "settings", "confirm_update"}
       \/ gui.dialogs > 0

\* The user can reach the main window: no handler is running, no box is open.
UserCan ==
    /\ ~closed
    /\ th["ctl"].pc = "idle"
    /\ gui.dialogs = 0
    /\ events < MaxEvents

\* A widget of the central area is enabled and not covered by the overlay.
Central(enabled) == enabled /\ ~gui.loading_overlay

OnDashboard(button) == gui.stack = "dashboard" /\ Central(button)

Queue(op, arg) == wk_q' = Append(wk_q, [op |-> op, arg |-> arg, by |-> "user"])

\* The timer's connection queues one call per timeout, whatever is queued.
QueuePoll == wk_q' = Append(wk_q, [op |-> "get_process_list", arg |-> "", by |-> "timer"])

RequestedStateOptimistic == IF gui.daemon_state = "STOPPED" THEN "RUNNING" ELSE "STOPPED"

RequestedStateLeftAsIs == gui.daemon_state

\* The state a daemon request asks for before it calls the worker.
RequestedState == "PENDING"

\* PM2GUI.handle_start_daemon_request, up to the call of worker.start_daemon().
handle_start_daemon_request ==
    /\ UserCan
    /\ gui.start_daemon_action \/ OnDashboard(gui.dash_start_daemon_button)
    /\ events' = events + 1
    /\ gui' = update_daemon_status(gui, projects, RequestedState)
    /\ th' = [th EXCEPT !["ctl"] = Enter("start_daemon", "")]
    /\ UNCHANGED <<pm2_installed, daemon_alive, pm2, wk_q, gui_q, projects, init_result, closed>>

\* PM2GUI.kill_daemon: the confirmation question opens.
kill_daemon_ask ==
    /\ UserCan
    /\ gui.kill_daemon_action \/ OnDashboard(gui.dash_kill_daemon_button)
    /\ events' = events + 1
    /\ th' = [th EXCEPT !["ctl"].pc = "confirm_kill"]
    /\ UNCHANGED <<pm2_installed, daemon_alive, pm2, wk_q, gui_q, gui, projects, init_result, closed>>

\* PM2GUI.kill_daemon: the answer; Yes sets PENDING and calls worker.kill_daemon().
kill_daemon_answer ==
    /\ ~closed
    /\ th["ctl"].pc = "confirm_kill"
    /\ gui.dialogs = 0
    /\ \E yes \in BOOLEAN :
         IF yes
         THEN /\ gui' = update_daemon_status(gui, projects, RequestedState)
              /\ th' = [th EXCEPT !["ctl"] = Enter("kill_daemon", "")]
         ELSE /\ gui' = gui
              /\ th' = [th EXCEPT !["ctl"] = Idle]
    /\ UNCHANGED <<pm2_installed, daemon_alive, pm2, events, wk_q, gui_q, projects, init_result, closed>>

\* refresh_action.triggered -> worker.get_process_list (queued connection).
refresh_clicked ==
    /\ UserCan
    /\ gui.project_actions
    /\ events' = events + 1
    /\ Queue("get_process_list", "")
    /\ UNCHANGED <<pm2_installed, daemon_alive, pm2, th, gui_q, gui, projects, init_result, closed>>

\* restart_all / stop_all from the toolbar or the dashboard (queued).
bulk_clicked ==
    /\ UserCan
    /\ events' = events + 1
    /\ \/ /\ gui.project_actions \/ OnDashboard(gui.dash_restart_all_button)
          /\ Queue("restart_all", "")
       \/ /\ gui.project_actions \/ OnDashboard(gui.dash_stop_all_button)
          /\ Queue("stop_all", "")
    /\ UNCHANGED <<pm2_installed, daemon_alive, pm2, th, gui_q, gui, projects, init_result, closed>>

\* refresh_timer.timeout -> worker.get_process_list (queued connection).
timer_tick ==
    /\ InEventLoop
    /\ gui.refresh_timer
    /\ events < MaxEvents
    /\ events' = events + 1
    /\ QueuePoll
    /\ UNCHANGED <<pm2_installed, daemon_alive, pm2, th, gui_q, gui, projects, init_result, closed>>

\* ProjectDetailWidget button states, set by update_details (251-256).
DetailButton(g, b) ==
    LET p == g.detail_current_project
    IN /\ g.stack = "detail"
       /\ p # NoProject
       /\ IF b = "start_process" THEN p.status # "online"
          ELSE IF b \in {"stop_process", "reload_process"} THEN p.status = "online"
          ELSE p.pm_id

\* start/stop/restart/reload of the shown project (queued connections).
process_clicked ==
    /\ UserCan
    /\ \E op \in {"start_process", "stop_process", "restart_process", "reload_process"} :
         /\ Central(DetailButton(gui, op))
         /\ Queue(op, gui.detail_current_project.name)
    /\ events' = events + 1
    /\ UNCHANGED <<pm2_installed, daemon_alive, pm2, th, gui_q, gui, projects, init_result, closed>>

\* PM2GUI.handle_delete_from_pm2: the confirmation question opens.
delete_ask ==
    /\ UserCan
    /\ Central(DetailButton(gui, "delete_process"))
    /\ events' = events + 1
    /\ th' = [th EXCEPT !["ctl"].pc = "confirm_delete",
                        !["ctl"].arg = gui.detail_current_project.name]
    /\ UNCHANGED <<pm2_installed, daemon_alive, pm2, wk_q, gui_q, gui, projects, init_result, closed>>

\* handle_delete_from_pm2: Yes calls worker.delete_process(project_name).
delete_answer ==
    /\ ~closed
    /\ th["ctl"].pc = "confirm_delete"
    /\ gui.dialogs = 0
    /\ \E yes \in BOOLEAN :
         th' = [th EXCEPT !["ctl"] = IF yes THEN Enter("delete_process", th["ctl"].arg) ELSE Idle]
    /\ UNCHANGED <<pm2_installed, daemon_alive, pm2, events, wk_q, gui_q, gui, projects, init_result, closed>>

\* PM2GUI.on_item_selected for the row the user picked.
on_item_selected(g, row) ==
    LET item == g.list_items[row]
        g1 == [g EXCEPT !.current_row = row]
        proj == FindByName(g.all_projects_data, item.name)
        is_new == g.detail_current_project = NoProject \/ g.detail_current_project.name # item.name
    IN IF item.kind = "dashboard" \/ proj = NoProject
       THEN [g1 EXCEPT !.stack = "dashboard"]
       ELSE [g1 EXCEPT !.stack = "detail",
                       !.detail_current_project = proj,
                       !.log_viewer = IF is_new THEN "" ELSE @]

\* Whether that selection goes on to worker.get_logs(selected_name).
FetchesLogs(g, row) ==
    LET item == g.list_items[row]
        proj == FindByName(g.all_projects_data, item.name)
    IN /\ item.kind = "project"
       /\ proj # NoProject
       /\ g.detail_current_project = NoProject \/ g.detail_current_project.name # item.name
       /\ proj.pm_id

\* project_list_widget.currentItemChanged -> on_item_selected.
item_selected ==
    /\ UserCan
    /\ ~gui.loading_overlay
    /\ \E row \in 1..Len(gui.list_items) :
         /\ row # gui.current_row
         /\ gui' = on_item_selected(gui, row)
         /\ th' = [th EXCEPT !["ctl"] =
                      IF FetchesLogs(gui, row)
                      THEN Enter("get_logs", gui.list_items[row].name) ELSE Idle]
    /\ events' = events + 1
    /\ UNCHANGED <<pm2_installed, daemon_alive, pm2, wk_q, gui_q, projects, init_result, closed>>

\* PM2GUI.add_project_dialog with a script picked and a name entered.
add_project_dialog ==
    /\ UserCan
    /\ gui.project_actions
    /\ events' = events + 1
    /\ \E name \in Names :
         LET a == add_project(projects, Declared(name, 0))
         IN /\ projects' = a.projects
            /\ IF a.ok
               THEN /\ gui' = [gui EXCEPT !.status_bar = "added"]
                    /\ th' = [th EXCEPT !["ctl"] = Enter("get_process_list", "")]
               ELSE /\ gui' = MessageBox(gui)
                    /\ th' = th
    /\ UNCHANGED <<pm2_installed, daemon_alive, pm2, wk_q, gui_q, init_result, closed>>

\* PM2GUI.remove_project: without a selected project an information box,
\* else the confirmation question opens.
remove_project_ask ==
    /\ UserCan
    /\ gui.project_actions
    /\ events' = events + 1
    /\ IF CurrentItem(gui).kind # "project"
       THEN gui' = MessageBox(gui) /\ th' = th
       ELSE /\ gui' = gui
            /\ th' = [th EXCEPT !["ctl"].pc = "confirm_remove",
                                !["ctl"].arg = CurrentItem(gui).name]
    /\ UNCHANGED <<pm2_installed, daemon_alive, pm2, wk_q, gui_q, projects, init_result, closed>>

\* remove_project: Yes deletes the project from PM2 when it is there, drops
\* it from the store and calls worker.get_process_list().
remove_project_answer ==
    /\ ~closed
    /\ th["ctl"].pc = "confirm_remove"
    /\ gui.dialogs = 0
    /\ \E yes \in BOOLEAN :
         IF ~yes
         THEN th' = [th EXCEPT !["ctl"] = Idle] /\ UNCHANGED <<gui, projects>>
         ELSE IF FindByName(gui.all_projects_data, th["ctl"].arg).pm_id
         THEN /\ th' = [th EXCEPT !["ctl"] =
                          [Enter("delete_process", th["ctl"].arg) EXCEPT !.then = "remove_project"]]
              /\ UNCHANGED <<gui, projects>>
         ELSE LET k == RemoveTail(gui, projects, th["ctl"].arg)
              IN th' = [th EXCEPT !["ctl"] = k.th] /\ gui' = k.gui /\ projects' = k.projects
    /\ UNCHANGED <<pm2_installed, daemon_alive, pm2, events, wk_q, gui_q, init_result, closed>>

\* The settings button of a list entry: reconfigure_project_dialog opens the
\* ProjectSettingsDialog when the store knows the project.
reconfigure_project_dialog ==
    /\ UserCan
    /\ ~gui.loading_overlay
    /\ events' = events + 1
    /\ \E row \in 1..Len(gui.list_items) :
         /\ gui.list_items[row].kind = "project"
         /\ th' = [th EXCEPT !["ctl"] =
                      IF gui.list_items[row].name \in NamesOf(projects)
                      THEN [Idle EXCEPT !.pc = "settings", !.arg = gui.list_items[row].name]
                      ELSE Idle]
    /\ UNCHANGED <<pm2_installed, daemon_alive, pm2, wk_q, gui_q, gui, projects, init_result, closed>>

\* The dialog closes: rejected, or accepted with new settings; a changed
\* configuration of a process that is in PM2 asks before deleting it.
settings_answer ==
    /\ ~closed
    /\ th["ctl"].pc = "settings"
    /\ gui.dialogs = 0
    /\ \E accepted \in BOOLEAN, name \in Names, conf \in Confs :
         LET old_name == th["ctl"].arg
             new_data == Declared(name, conf)
             original == FindDeclared(projects, old_name)
             live == FindByName(gui.all_projects_data, old_name).pm_id
         IN IF ~accepted
            THEN th' = [th EXCEPT !["ctl"] = Idle] /\ UNCHANGED <<gui, projects>>
            ELSE IF live /\ original # new_data
            THEN /\ th' = [th EXCEPT !["ctl"].pc = "confirm_update", !["ctl"].new = new_data]
                 /\ UNCHANGED <<gui, projects>>
            ELSE LET k == UpdateTail(gui, projects, old_name, new_data)
                 IN th' = [th EXCEPT !["ctl"] = k.th] /\ gui' = k.gui /\ projects' = k.projects
    /\ UNCHANGED <<pm2_installed, daemon_alive, pm2, events, wk_q, gui_q, init_result, closed>>

\* reconfigure_project_dialog: Yes calls worker.delete_process(old_name)
\* and then updates the store.
update_answer ==
    /\ ~closed
    /\ th["ctl"].pc = "confirm_update"
    /\ gui.dialogs = 0
    /\ \E yes \in BOOLEAN :
         th' = [th EXCEPT !["ctl"] =
                  IF yes
                  THEN [Enter("delete_process", th["ctl"].arg) EXCEPT
                            !.then = "update_project", !.new = th["ctl"].new]
                  ELSE Idle]
    /\ UNCHANGED <<pm2_installed, daemon_alive, pm2, events, wk_q, gui_q, gui, projects, init_result, closed>>

\* The control thread's event loop delivers the next queued worker signal.
Deliver ==
    /\ InEventLoop
    /\ gui_q # <<>>
    /\ gui' = Handle(gui, projects, Head(gui_q))
    /\ gui_q' = Tail(gui_q)
    /\ UNCHANGED <<pm2_installed, daemon_alive, pm2, events, th, wk_q, projects, init_result, closed>>

\* The user acknowledges the topmost error box.
dismiss_error ==
    /\ ~closed
    /\ gui.dialogs > 0
    /\ gui' = [gui EXCEPT !.dialogs = @ - 1]
    /\ UNCHANGED <<pm2_installed, daemon_alive, pm2, events, th, wk_q, gui_q, projects, init_result, closed>>

\* PM2GUI.closeEvent: the timer stops and the worker thread is told to quit.
closeEvent ==
    /\ UserCan
    /\ closed' = TRUE
    /\ gui' = [gui EXCEPT !.refresh_timer = FALSE]
    /\ UNCHANGED <<pm2_installed, daemon_alive, pm2, events, th, wk_q, gui_q, projects, init_result>>

-----------------------------------------------------------------------------
(* The daemon's own life: it is started and stopped outside this program *)

daemon_stops ==
    /\ ~closed
    /\ events < MaxEvents
    /\ daemon_alive
    /\ daemon_alive' = FALSE
    /\ pm2' = EmptyTable
    /\ events' = events + 1
    /\ UNCHANGED <<pm2_installed, th, wk_q, gui_q, gui, projects, init_result, closed>>

daemon_starts ==
    /\ ~closed
    /\ events < MaxEvents
    /\ ~daemon_alive
    /\ daemon_alive' = TRUE
    /\ pm2' = EmptyTable
    /\ events' = events + 1
    /\ UNCHANGED <<pm2_installed, th, wk_q, gui_q, gui, projects, init_result, closed>>

-----------------------------------------------------------------------------
(* The specification *)

InitGui ==
    [daemon_state |-> "None", refresh_timer |-> FALSE, loading_overlay |-> FALSE,
     start_daemon_action |-> TRUE, kill_daemon_action |-> TRUE, project_actions |-> TRUE,
     dash_start_daemon_button |-> TRUE, dash_kill_daemon_button |-> TRUE,
     dash_restart_all_button |-> TRUE, dash_stop_all_button |-> TRUE,
     status_bar |-> "", all_projects_data |-> <<>>, list_items |-> <<>>, current_row |-> 0,
     stack |-> "dashboard", detail_current_project |-> NoProject, log_viewer |-> "",
     dialogs |-> 0, printed |-> <<"None", "None">>, list_ops |-> NoListOps]

InitTables == {EmptyTable, [EmptyTable EXCEPT !["a"] = "online"]}

InitStores == {<<Declared("b", 0), Declared("a", 0)>>}

Init ==
    /\ pm2_installed \in BOOLEAN
    /\ daemon_alive \in (IF pm2_installed THEN BOOLEAN ELSE {FALSE})
    /\ pm2 \in (IF daemon_alive THEN InitTables ELSE {EmptyTable})
    /\ events = 0
    /\ th = [t \in Threads |->
                IF t = "pre" THEN [Idle EXCEPT !.pc = "probe", !.op = "get_initial_state"]
                ELSE IF t = "ctl" THEN [Idle EXCEPT !.pc = "boot"]
                ELSE Idle]
    /\ wk_q = <<>>
    /\ gui_q = <<>>
    /\ gui = InitGui
    /\ projects \in InitStores
    /\ init_result = [ready |-> FALSE, data |-> <<>>, running |-> FALSE]
    /\ closed = FALSE

WorkerStep(t) ==
    \/ RunCommand(t)
    \/ AfterCommand(t)
    \/ Probe(t)
    \/ Query(t)
    \/ EmitList(t)
    \/ Return(t)

\* The project store under the user's edits: any store and any process
\* table at start, a daemon that is up, and the handlers that add, remove,
\* reconfigure and select projects, each with the refresh it runs.
StoreTables ==
    {EmptyTable,
     [EmptyTable EXCEPT !["b"] = "online"],
     [EmptyTable EXCEPT !["a"] = "online", !["c"] = "stopped"]}

Injective(q) == \A i, j \in 1..Len(q) : q[i] = q[j] => i = j

NameLists == {q \in UNION {[1..k -> Names] : k \in 0..Len(NameOrder)} : Injective(q)}

AllStores == {[i \in 1..Len(q) |-> Declared(q[i], 0)] : q \in NameLists}

StoreInit ==
    /\ pm2_installed = TRUE
    /\ daemon_alive = TRUE
    /\ pm2 \in StoreTables
    /\ events = 0
    /\ th = [t \in Threads |->
                IF t = "pre" THEN [Idle EXCEPT !.pc = "probe", !.op = "get_initial_state"]
                ELSE IF t = "ctl" THEN [Idle EXCEPT !.pc = "boot"]
                ELSE Idle]
    /\ wk_q = <<>>
    /\ gui_q = <<>>
    /\ gui = InitGui
    /\ projects \in AllStores
    /\ init_result = [ready |-> FALSE, data |-> <<>>, running |-> FALSE]
    /\ closed = FALSE

StoreNext ==
    \/ GetInitialStateProbe
    \/ GetInitialStateQuery
    \/ Construct
    \/ post_init_setup
    \/ add_project_dialog
    \/ remove_project_ask
    \/ remove_project_answer
    \/ reconfigure_project_dialog
    \/ settings_answer
    \/ update_answer
    \/ item_selected
    \/ dismiss_error
    \/ WorkerStep("ctl")

StoreSpec == StoreInit /\ [][StoreNext]_vars

Next ==
    \/ GetInitialStateProbe
    \/ GetInitialStateQuery
    \/ Construct
    \/ post_init_setup
    \/ handle_start_daemon_request
    \/ kill_daemon_ask
    \/ kill_daemon_answer
    \/ refresh_clicked
    \/ bulk_clicked
    \/ timer_tick
    \/ process_clicked
    \/ delete_ask
    \/ delete_answer
    \/ item_selected
    \/ Deliver
    \/ dismiss_error
    \/ closeEvent
    \/ daemon_stops
    \/ daemon_starts
    \/ WorkerTakes
    \/ WorkerStep("ctl")
    \/ WorkerStep("wk")

Spec == Init /\ [][Next]_vars

-----------------------------------------------------------------------------
(* Properties *)

Count(log, e) == Cardinality({i \in 1..Len(log) : log[i] = e})

Probes(log) == {i \in 1..Len(log) : log[i] \in {"probe:True", "probe:False"}}

\* The part of a call's log that get_process_list wrote.
RefreshLog(log) ==
    IF Probes(log) = {} THEN <<>>
    ELSE SubSeq(log, CHOOSE i \in Probes(log) : \A j \in Probes(log) : i <= j, Len(log))

ControlOps ==
    {"start_process", "stop_process", "restart_process", "reload_process", "delete_process",
     "stop_all", "restart_all", "start_daemon", "kill_daemon"}

DaemonOps == {"start_daemon", "kill_daemon"}

\* This step changes Running to Stopped or Stopped to Running.
DirectChange ==
    \/ gui.daemon_state = "RUNNING" /\ gui'.daemon_state = "STOPPED"
    \/ gui.daemon_state = "STOPPED" /\ gui'.daemon_state = "RUNNING"

\* This step hands liveness result b to update_daemon_status: a queued
\* daemon_status_ready is delivered, a directly called get_process_list emits
\* it, or post_init_setup passes on the preloader's result.
ConsumesStatus(b) ==
    \/ InEventLoop /\ gui_q # <<>> /\ Head(gui_q) = DaemonStatusMsg(b) /\ gui_q' = Tail(gui_q)
    \/ th["ctl"].pc = "probe" /\ th'["ctl"].pc # "probe" /\ th'["ctl"].is_running = b
    \/ th["ctl"].pc = "post_init" /\ th'["ctl"].pc = "idle" /\ init_result.running = b

\* This step is a start-daemon request or a confirmed kill-daemon request.
DaemonRequest ==
    /\ th["ctl"].pc \in {"idle", "confirm_kill"}
    /\ th'["ctl"].pc = "cmd"
    /\ th'["ctl"].op \in DaemonOps

\* C1 as stated: the state machine never emits (prints) a direct
\* Running->Stopped or Stopped->Running transition.
C1_NeverDirect ==
    gui.printed \notin {<<"RUNNING", "STOPPED">>, <<"STOPPED", "RUNNING">>}

\* C1 amended: a direct change between Running and Stopped happens only in a
\* step that consumes a liveness result, and lands on the state that result
\* stands for; a start/kill request always lands on Pending.
C1_DirectOnlyOnLivenessResult ==
    [][/\ DirectChange =>
            \E b \in BOOLEAN : ConsumesStatus(b) /\ gui'.daemon_state = StateOf(BoolArg(b))
       /\ DaemonRequest => gui'.daemon_state = "PENDING"]_vars

C1_Witness == gui.printed = <<"RUNNING", "STOPPED">>

\* C2: a control method has issued exactly one command, as its first act,
\* before its refresh probes, and it does not return without that refresh
\* having probed and emitted its list.
C2_OneCommandThenRefresh ==
    \A t \in {"ctl", "wk"} :
        th[t].op \in ControlOps =>
            /\ th[t].pc = "cmd" => th[t].log = <<>>
            /\ th[t].pc # "cmd" => Count(th[t].log, "cmd") = 1 /\ th[t].log[1] = "cmd"
            /\ th[t].pc = "ret" =>
                  /\ Cardinality(Probes(th[t].log)) = 1
                  /\ th[t].log[Len(th[t].log)] \in {"list:[]", "list:data"}

C2_Witness ==
    /\ th["wk"].pc = "ret"
    /\ th["wk"].op = "stop_process"
    /\ \E i \in 1..Len(gui_q) : gui_q[i] = ErrorMsg

\* C3: a finished get_process_list has emitted one daemon_status_ready with
\* the probe's result and then one list_ready; after a probe of False the
\* list is empty and jlist was not run.
C3_OneStatusThenOneList ==
    \A t \in {"ctl", "wk"} :
        (th[t].pc = "ret" /\ th[t].op \in ControlOps \cup {"get_process_list"}) =>
            LET r == RefreshLog(th[t].log)
            IN \/ r = <<"probe:False", "status:False", "list:[]">>
               \/ r = <<"probe:True", "status:True", "jlist", "list:[]">>
               \/ r = <<"probe:True", "status:True", "jlist", "list:data">>

C3_Witness ==
    /\ th["wk"].pc = "ret"
    /\ th["wk"].op = "get_process_list"
    /\ ~th["wk"].is_running
    /\ daemon_alive

\* C4: get_initial_state whose probe said not running returns ('[]', False)
\* and has run no jlist.
C4_InitialStateNotRunning ==
    (th["pre"].pc = "done" /\ ~th["pre"].is_running) =>
        /\ init_result = [ready |-> TRUE, data |-> <<>>, running |-> FALSE]
        /\ Count(th["pre"].log, "jlist") = 0

C4_Witness == th["pre"].pc = "done" /\ ~th["pre"].is_running /\ init_result.ready

\* C5 as stated: no jlist query of get_initial_state or get_process_list is
\* launched while the daemon is not running.
C5_QueryNeverMeetsDeadDaemon ==
    [][\A t \in Threads :
          (th[t].pc = "query" /\ th'[t].pc # "query" /\ pm2_installed) => daemon_alive]_vars

\* A step the program takes by itself, needing neither the user nor a change
\* of the daemon: the control thread goes on with the handler it is in, the
\* worker thread runs or takes a queued call, a queued signal is delivered.
ProgramStep ==
    \/ Construct
    \/ post_init_setup
    \/ WorkerStep("ctl")
    \/ WorkerStep("wk")
    \/ WorkerTakes
    \/ Deliver

\* C6 as stated: Pending gives way to Running or Stopped on the strength of
\* the external invocations returning alone, so a Pending state is never left
\* with nothing to wait for but the user: the program has a step of its own
\* to take, or the poll timer is running and will bring one.
C6_PendingNeverWaitsOnUser ==
    (gui.daemon_state = "PENDING" /\ ~closed) => (gui.refresh_timer \/ ENABLED ProgramStep)

\* C7: when worker.start_daemon() / worker.kill_daemon() is about to run its
\* command, the state is already Pending.
C7_PendingBeforeCommand ==
    (th["ctl"].op \in DaemonOps /\ th["ctl"].pc = "cmd") => gui.daemon_state = "PENDING"

C7_Witness ==
    /\ th["ctl"].op = "kill_daemon"
    /\ th["ctl"].pc = "cmd"
    /\ gui.printed = <<"STOPPED", "PENDING">>

\* C8: construction lands on Pending, and Pending is left only in a step that
\* consumes a liveness result: True leads to Running, False to Stopped.
C8_PendingLeftByLivenessResult ==
    [][/\ (gui.daemon_state = "None" /\ gui'.daemon_state # "None") => gui'.daemon_state = "PENDING"
       /\ (gui.daemon_state = "PENDING" /\ gui'.daemon_state # "PENDING") =>
            \E b \in BOOLEAN :
                /\ ConsumesStatus(b)
                /\ gui'.daemon_state = IF b THEN "RUNNING" ELSE "STOPPED"]_vars

C8_Witness ==
    /\ gui.printed = <<"PENDING", "STOPPED">>
    /\ th["ctl"].op = "kill_daemon"
    /\ th["ctl"].pc = "list"

\* C9: consuming a liveness result that stands for the state the machine is
\* already in changes nothing of the window.
C9_SameStateIsNoOp ==
    [][\A b \in BOOLEAN :
          (ConsumesStatus(b) /\ StateOf(BoolArg(b)) = gui.daemon_state) => gui' = gui]_vars

C9_Witness ==
    /\ gui.printed = <<"PENDING", "RUNNING">>
    /\ gui.status_bar = "updated"
    /\ gui_q # <<>>
    /\ Head(gui_q) = DaemonStatusMsg(TRUE)
    /\ InEventLoop

\* C10: while the window is open, Running has the poll timer active and
\* Stopped has it inactive.
C10_TimerFollowsState ==
    ~closed =>
        /\ gui.daemon_state = "RUNNING" => gui.refresh_timer
        /\ gui.daemon_state = "STOPPED" => ~gui.refresh_timer

C10_Witness ==
    /\ gui.daemon_state = "STOPPED"
    /\ init_result.running
    /\ ~gui.refresh_timer
    /\ ~closed

\* The context is inside a worker method with an external invocation (a pm2
\* command line or the process listing of the probe) to run next.
Invoking(t) == th[t].pc \in {"cmd", "probe", "query"}

\* C11 as stated: the control thread's requests are serialized onto the one
\* worker context, so two contexts never have an external invocation under
\* way at the same time.
C11_OneInvocationAtATime ==
    \A t1, t2 \in Threads : (Invoking(t1) /\ Invoking(t2)) => t1 = t2

\* C12 as stated: no Fleet Client operation runs on the control thread, which
\* therefore never has an external invocation to wait for.
C12_ControlThreadNeverInvokes == ~Invoking("ctl")

StatusOrList(msg) == msg.type \in {"daemon_status_ready", "list_ready"}

\* C13 as stated: notifications are consumed in the order their requests were
\* issued.  When the control thread has consumed the DaemonStatus of the
\* request it is running, and has run no event loop (opened no error box)
\* since it made that request, everything still queued comes from a request
\* made earlier: so no DaemonStatus or ListReady is queued then.
C13_ConsumedInIssuanceOrder ==
    ("daemon_status_ready" \in {th["ctl"].sig[i] : i \in 1..Len(th["ctl"].sig)}
        /\ "error" \notin {th["ctl"].sig[i] : i \in 1..Len(th["ctl"].sig)})
    => \A i \in 1..Len(gui_q) : ~StatusOrList(gui_q[i])

\* C14: in get_process_list, when the probe said running and jlist returned
\* text that does not parse, DaemonStatus(True) is the last signal emitted
\* (the query emitted no error) and the list about to be emitted is empty.
C14_MalformedListIsEmptyNotError ==
    \A t \in {"ctl", "wk"} :
        (th[t].pc = "list" /\ th[t].is_running /\ th[t].out \in {"text", "empty"}) =>
            /\ th[t].sig[Len(th[t].sig)] = "daemon_status_ready"
            /\ th[t].log[Len(th[t].log) - 1] = "status:True"
            /\ ListToEmit(th[t]) = <<>>

C14_Witness ==
    /\ th["wk"].pc = "list"
    /\ th["wk"].op = "get_process_list"
    /\ th["wk"].is_running
    /\ th["wk"].out = "text"
    /\ Snapshot(pm2) # <<>>

\* C15: get_initial_state after a probe of True returns running True; the
\* list is empty unless jlist exited 0 with output that parses; a failed or
\* timed-out jlist emits no error (can_fail=True).
C15_InitialQueryFailureKeepsRunning ==
    (th["pre"].pc = "done" /\ th["pre"].is_running) =>
        /\ init_result.ready /\ init_result.running
        /\ (th["pre"].res # "ok" \/ th["pre"].out # "json") => init_result.data = <<>>
        /\ th["pre"].res \in {"fail", "timeout"} => th["pre"].sig = <<>>

C15_Witness ==
    /\ th["pre"].pc = "done"
    /\ th["pre"].is_running
    /\ th["pre"].res = "ok"
    /\ th["pre"].out = "text"
    /\ Snapshot(pm2) # <<>>

Failures == {"notfound", "fail", "timeout"}

\* C17 as stated: after a non-zero exit or a timeout the error signal has been
\* emitted exactly when can_fail is False, and with can_fail True the caller
\* got the captured output or the timeout sentinel, never None.
C17_FailureReturnsOutputOrSentinel ==
    \A t \in {"ctl", "wk"} :
        (th[t].pc = "post" /\ th[t].res \in {"fail", "timeout"}) =>
            /\ ("error" \in {th[t].sig[i] : i \in 1..Len(th[t].sig)}) <=> ~CanFail(th[t].op)
            /\ CanFail(th[t].op) => th[t].out # "none"

\* C18 as stated: a get_logs whose command exited non-zero or timed out has
\* emitted nothing: no error and no logs_ready.
C18_FailedLogsFetchIsSilent ==
    \A t \in {"ctl", "wk"} :
        (th[t].op = "get_logs" /\ th[t].res \in {"fail", "timeout"}) => th[t].sig = <<>>

MutatingOps == ControlOps \ {"start_daemon"}

\* C19: when the command of a mutating action has failed, the error signal
\* is out before the refresh has probed; and a call that began with the error
\* signal returns with daemon_status_ready and list_ready after it.
C19_ErrorBeforeRefresh ==
    \A t \in {"ctl", "wk"} :
        th[t].op \in MutatingOps =>
            /\ (th[t].pc = "post" /\ th[t].res \in Failures) =>
                  th[t].sig = <<"error">> /\ Probes(th[t].log) = {}
            /\ (th[t].pc = "ret" /\ th[t].sig[1] = "error") =>
                  \E i, j \in 2..Len(th[t].sig) :
                      /\ i < j
                      /\ th[t].sig[i] = "daemon_status_ready"
                      /\ th[t].sig[j] = "list_ready"

C19_Witness ==
    /\ th["ctl"].pc = "ret"
    /\ th["ctl"].op = "delete_process"
    /\ th["ctl"].sig = <<"error", "daemon_status_ready", "list_ready">>
    /\ pm2_installed

StatusPath(t) == th[t].op \in {"get_process_list", "get_initial_state"}

C21_ProbeFoldsFailuresToFalse ==
    [][/\ \A po \in ProbeFailures : is_daemon_running(po) = FALSE
       /\ \A t \in Threads :
            (th[t].pc = "probe" /\ th'[t].pc # "probe") =>
                /\ th'[t].is_running \in BOOLEAN
                /\ th'[t].is_running => daemon_alive
                /\ th'[t].pc \in {"query", "list", "done"}]_vars

C21_Witness ==
    /\ th["wk"].pc = "list"
    /\ th["wk"].log = <<"probe:False", "status:False">>
    /\ daemon_alive

\* C22: in start_process the ecosystem file is on disk while the start
\* command has yet to run or is running, and is gone from the moment the
\* method goes on to get_process_list until it returns, however the command
\* ended.
C22_DescriptorRemovedBeforeRefresh ==
    \A t \in {"ctl", "wk"} :
        /\ (th[t].op = "start_process" /\ th[t].pc = "cmd") => th[t].temp_eco_file
        /\ (th[t].op = "start_process" /\ th[t].pc \in {"probe", "query", "list", "ret"}) =>
              /\ ~th[t].temp_eco_file
              /\ Count(th[t].log, "cmd") = 1
        /\ th[t].op # "start_process" => ~th[t].temp_eco_file

C22_Witness ==
    /\ th["wk"].op = "start_process"
    /\ th["wk"].pc = "probe"
    /\ "error" \in {th["wk"].sig[i] : i \in 1..Len(th["wk"].sig)}
    /\ ~th["wk"].temp_eco_file

AnyDetailButton(g) ==
    \E b \in {"start_process", "stop_process", "restart_process", "reload_process", "delete_process"} :
        g.detail_current_project # NoProject /\ DetailButton([g EXCEPT !.stack = "detail"], b)

\* C29 as stated: while the daemon state is PENDING the toolbar's and the
\* dashboard's start-daemon and kill-daemon actions and every process control
\* action (toolbar, dashboard bulk buttons, detail buttons) are disabled.
C29_PendingDisablesEverything ==
    gui.daemon_state = "PENDING" =>
        /\ ~gui.start_daemon_action /\ ~gui.kill_daemon_action
        /\ ~gui.dash_start_daemon_button /\ ~gui.dash_kill_daemon_button
        /\ ~gui.project_actions
        /\ ~gui.dash_restart_all_button /\ ~gui.dash_stop_all_button
        /\ ~AnyDetailButton(gui)

\* C30: in RUNNING the start-daemon action is disabled and the kill-daemon
\* action enabled, in STOPPED the reverse, on the toolbar and on the dashboard.
C30_DaemonActionsFollowState ==
    /\ gui.daemon_state = "RUNNING" =>
          /\ ~gui.start_daemon_action /\ gui.kill_daemon_action
          /\ ~gui.dash_start_daemon_button /\ gui.dash_kill_daemon_button
    /\ gui.daemon_state = "STOPPED" =>
          /\ gui.start_daemon_action /\ ~gui.kill_daemon_action
          /\ gui.dash_start_daemon_button /\ ~gui.dash_kill_daemon_button

C30_Witness ==
    /\ gui.daemon_state = "STOPPED"
    /\ gui.printed = <<"RUNNING", "STOPPED">>
    /\ gui.start_daemon_action
    /\ ~gui.kill_daemon_action

-----------------------------------------------------------------------------
(* Reconciliation and the rendered list, under StoreSpec *)

\* The control thread has just run update_ui for the list_ready of the call
\* it is in: gui is the result for the store as it is and for this list.
JustUpdated ==
    /\ th["ctl"].pc = "ret"
    /\ th["ctl"].sig # <<>>
    /\ th["ctl"].sig[Len(th["ctl"].sig)] = "list_ready"

LiveList == ListToEmit(th["ctl"])

SortedByName(v) == \A i \in 1..(Len(v) - 1) : Rank(v[i].name) < Rank(v[i + 1].name)

ProjectNames(g) == {g.list_items[j].name : j \in {k \in 1..Len(g.list_items) : g.list_items[k].kind = "project"}}

\* C23: the merged list update_ui stores is sorted by name and has one view
\* per declared name and no other: live records of undeclared names are left out.
C23_MergedListIsTheDeclaredNamesSorted ==
    JustUpdated =>
        /\ SortedByName(gui.all_projects_data)
        /\ Len(gui.all_projects_data) = Len(projects)
        /\ NamesOf(gui.all_projects_data) = NamesOf(projects)

C23_Witness ==
    /\ JustUpdated
    /\ Len(projects) >= 2
    /\ Rank(projects[1].name) > Rank(projects[2].name)
    /\ \E j \in 1..Len(LiveList) : LiveList[j].name \notin NamesOf(projects)

\* C24: the view of each declared config carries the declared settings and,
\* when the live list has a record of that name, the first such record's
\* fields; without one its status is undeployed and it has no pm_id.
C24_ViewIsDeclaredOverlaidWithLive ==
    JustUpdated =>
        \A i \in 1..Len(projects) :
            LET d == projects[i]
                v == FindByName(gui.all_projects_data, d.name)
                hits == {j \in 1..Len(LiveList) : LiveList[j].name = d.name}
            IN /\ v.name = d.name
               /\ v.conf = d.conf
               /\ hits = {} => (v.status = "undeployed" /\ ~v.pm_id)
               /\ hits # {} =>
                     /\ v.pm_id
                     /\ \E j \in hits : v.status = LiveList[j].status /\ \A k \in hits : j <= k

C24_Witness ==
    /\ JustUpdated
    /\ NamesOf(projects) = {"a", "b"}
    /\ NamesOf(LiveList) = {"a", "c"}
    /\ FindByName(gui.all_projects_data, "a").status = "online"
    /\ FindByName(gui.all_projects_data, "b").status = "undeployed"

\* C25: once the list has been populated, the entries after the dashboard
\* entry are project entries naming the stored merged views, in the same
\* order, and that order is sorted by name without duplicates.
C25_RenderedListIsTheMergedList ==
    gui.list_items # <<>> =>
        /\ gui.list_items[1] = DashboardItem
        /\ Len(gui.list_items) = Len(gui.all_projects_data) + 1
        /\ \A j \in 1..Len(gui.all_projects_data) :
              gui.list_items[j + 1] = ProjectItem(gui.all_projects_data[j].name)
        /\ SortedByName(gui.all_projects_data)

C25_Witness ==
    /\ JustUpdated
    /\ gui.list_ops = [cleared |-> FALSE, removed |-> {}, added |-> {"b"}]
    /\ Len(gui.list_items) = 4

\* C26: an update_ui run by a list_ready leaves every project entry whose
\* name is in the list before and in the new merged list where it is: the
\* list is not cleared, the entry is neither taken out nor put in, and when
\* it was the current entry it still is.
C26_KeptEntriesStayInPlace ==
    [][(th["ctl"].pc = "list" /\ th'["ctl"].pc = "ret") =>
          \A n \in ProjectNames(gui) \cap NamesOf(gui'.all_projects_data) :
              /\ ~gui'.list_ops.cleared
              /\ n \notin gui'.list_ops.removed \cup gui'.list_ops.added
              /\ n \in ProjectNames(gui')
              /\ CurrentItem(gui) = ProjectItem(n) => CurrentItem(gui') = ProjectItem(n)]_vars

C26_Witness ==
    /\ JustUpdated
    /\ ~gui.list_ops.cleared
    /\ gui.list_ops.added = {"a"}
    /\ CurrentItem(gui) = ProjectItem("b")
    /\ gui.stack = "detail"

\* C27 as stated: once update_ui has run for a store and a live list, running
\* it again for the same store and the same list clears nothing, takes out
\* and puts in nothing, and leaves the list and the current row as they are.
C27_SecondUpdateDoesNothing ==
    JustUpdated =>
        LET again == update_ui(gui, projects, LiveList)
        IN /\ again.list_ops = NoListOps
           /\ again.list_items = gui.list_items
           /\ again.current_row = gui.current_row

\* C28 as stated: an update_ui that finds a populated list never clears and
\* rebuilds it.
C28_RebuildOnlyWithoutPriorList ==
    [][(th["ctl"].pc = "list" /\ th'["ctl"].pc = "ret" /\ gui.list_items # <<>>) =>
          ~gui'.list_ops.cleared]_vars

-----------------------------------------------------------------------------
(* The STOPPED state, the store's names, and what is outstanding *)

\* C31 as stated: while the daemon state is STOPPED every process-management
\* action is disabled: the toolbar's project actions, the dashboard's bulk
\* buttons and the detail page's start, stop, restart, reload and delete.
C31_StoppedDisablesProcessActions ==
    gui.daemon_state = "STOPPED" =>
        /\ ~gui.project_actions
        /\ ~gui.dash_restart_all_button /\ ~gui.dash_stop_all_button
        /\ \A b \in {"start_process", "stop_process", "restart_process",
                     "reload_process", "delete_process"} : ~DetailButton(gui, b)

\* C32 as stated: a step that enters STOPPED leaves no project entry in the
\* rendered list.
C32_EnteringStoppedEmptiesTheList ==
    [][(gui.daemon_state # "STOPPED" /\ gui'.daemon_state = "STOPPED") =>
          ProjectNames(gui') = {}]_vars

\* C33: no two declared projects share a name, whatever the user has added,
\* removed, reconfigured or renamed.
C33_DeclaredNamesAreUnique ==
    \A i, j \in 1..Len(projects) : projects[i].name = projects[j].name => i = j

C33_Witness ==
    /\ gui.status_bar = "reconfigured"
    /\ Len(projects) = 2
    /\ ProjectNames(gui) # NamesOf(projects)

Refused(P) == [ok |-> FALSE, projects |-> P]

\* C34: for the store as it is, add_project with a name that exists returns
\* False and the store as it was, and so does update_project when the new
\* name is missing, or differs from the old one and is taken, or the old
\* name is not found; a call that returns False never returns another store.
C34_RefusedMutationLeavesTheStore ==
    /\ \A n \in Names, c \in Confs :
          /\ n \in NamesOf(projects) => add_project(projects, Declared(n, c)) = Refused(projects)
          /\ ~add_project(projects, Declared(n, c)).ok =>
                add_project(projects, Declared(n, c)).projects = projects
    /\ \A old \in Names, new \in Names \cup {""}, c \in Confs :
          LET u == update_project(projects, old, Declared(new, c))
          IN /\ (new = "" \/ (new # old /\ new \in NamesOf(projects)) \/ old \notin NamesOf(projects))
                  => u = Refused(projects)
             /\ ~u.ok => u.projects = projects

C34_Witness ==
    /\ gui.dialogs = 1
    /\ th["ctl"] = Enter("get_process_list", "")
    /\ gui.status_bar # "reconfigured"
    /\ Len(projects) >= 2

\* The step in which reconfigure_project_dialog gets False from
\* update_project: it warns and calls worker.get_process_list().
UpdateRefused ==
    /\ th["ctl"].pc \in {"settings", "ret"}
    /\ gui'.dialogs = gui.dialogs + 1
    /\ th'["ctl"] = Enter("get_process_list", "")

\* C36 as stated: when the store refuses a reconfiguration the store is as
\* it was and the handler has sent no delete for the process.
C36_RefusedUpdateHasSentNoDelete ==
    [][UpdateRefused =>
          /\ projects' = projects
          /\ ~(th["ctl"].op = "delete_process" /\ Count(th["ctl"].log, "cmd") > 0)]_vars

\* Nothing is running, queued or open that would lead to an update_ui, and
\* the timer that would ask for one is stopped.
NoRefreshToCome ==
    /\ ~gui.refresh_timer
    /\ th["ctl"].pc = "idle" /\ th["wk"].pc = "idle"
    /\ wk_q = <<>> /\ gui_q = <<>>
    /\ gui.dialogs = 0

\* C37 as stated, in the form a finite run refutes: whenever the rendered
\* names differ from the declared names a refresh is under way or the poll
\* is active, so that the list catches up without the user.
C37_StaleListHasARefreshComing ==
    (gui.list_items # <<>> /\ ~closed /\ ProjectNames(gui) # NamesOf(projects)) => ~NoRefreshToCome

PollsOutstanding ==
    Cardinality({i \in 1..Len(wk_q) : wk_q[i].by = "timer"})
        + (IF th["wk"].by = "timer" THEN 1 ELSE 0)

\* C38 as stated: at most one get_process_list queued by the timer is
\* waiting in the worker thread's queue or running on it.
C38_AtMostOnePollOutstanding == PollsOutstanding <= 1

InDaemonRequest == th["ctl"].op \in {"start_daemon", "kill_daemon"}

\* C35 as stated: while the control thread is in the start_daemon or
\* kill_daemon call it made after setting PENDING, the state leaves PENDING
\* only in the step where that call's own probe reports; and once the probe of
\* a kill_daemon call has reported not-running, with no event loop run since
\* the request, no DaemonStatus(True) of an earlier request is still queued
\* to move the state back to RUNNING.
C35_PendingLeftOnlyByOwnRefresh ==
    [][/\ (InDaemonRequest /\ gui.daemon_state = "PENDING" /\ gui'.daemon_state # "PENDING")
            => (th["ctl"].pc = "probe" /\ th'["ctl"].pc # "probe")
       /\ (th["ctl"].op = "kill_daemon" /\ th["ctl"].pc \in {"list", "ret"}
              /\ ~th["ctl"].is_running
              /\ "error" \notin {th["ctl"].sig[i] : i \in 1..Len(th["ctl"].sig)})
            => \A i \in 1..Len(gui_q) : gui_q[i] # DaemonStatusMsg(TRUE)]_vars

\* C39 as stated: a logs_ready for a name other than the detail page's
\* project, or one that arrives while the dashboard is shown, leaves the
\* window as it is; and the log viewer never holds the log of a project
\* other than the one the detail page shows.
C39_LogsOnlyForTheShownProject ==
    /\ \A n \in Names :
          (gui.stack # "detail" \/ gui.detail_current_project.name # n)
              => Handle(gui, projects, LogsReadyMsg(n)) = gui
    /\ gui.log_viewer # "" => gui.log_viewer = gui.detail_current_project.name

====
